---- MODULE Spec2Model ----
(***************************************************************************)
(* Session-token lifecycle and authenticated-request gating of the GLPI    *)
(* maintenance frontend: the token store and JWT helpers (lib/auth, kept   *)
(* at the end of components/home/HomeClient.tsx), the AppFrame session     *)
(* guard (components/app/AppFrame.tsx) and the device API wrappers.        *)
(*                                                                         *)
(* Strings are sequences of character codes (charCodeAt values).           *)
(***************************************************************************)
EXTENDS Integers, Sequences, FiniteSets, TLC

\* ------------------------------------------------------------------------
\* Bounds of the model
\* ------------------------------------------------------------------------
MaxNow == 3
MaxExp == 36

\* ------------------------------------------------------------------------
\* Program constants
\* ------------------------------------------------------------------------
\* isTokenExpired(token, skewSeconds = 30)
DefaultSkew == 30

\* the value null / undefined of the program
Null == [t |-> "null"]
Undefined == [t |-> "undefined"]

\* ------------------------------------------------------------------------
\* String helpers
\* ------------------------------------------------------------------------
RECURSIVE SplitAcc(_, _, _)
SplitAcc(s, cur, acc) ==
  IF s = <<>> THEN Append(acc, cur)
  ELSE IF Head(s) = 46
       THEN SplitAcc(Tail(s), <<>>, Append(acc, cur))
       ELSE SplitAcc(Tail(s), Append(cur, Head(s)), acc)

\* t.split(".")
SplitDot(s) == SplitAcc(s, <<>>, <<>>)

RECURSIVE Repeat(_, _)
Repeat(c, n) == IF n <= 0 THEN <<>> ELSE <<c>> \o Repeat(c, n - 1)

\* .replace(/-/g, "+").replace(/_/g, "/")
ReplaceUrlChars(s) ==
  [i \in 1..Len(s) |-> IF s[i] = 45 THEN 43 ELSE IF s[i] = 95 THEN 47 ELSE s[i]]

\* ------------------------------------------------------------------------
\* atob: forgiving base64 decode of the platform
\* ------------------------------------------------------------------------
B64Value(c) ==
  IF c >= 65 /\ c <= 90 THEN c - 65
  ELSE IF c >= 97 /\ c <= 122 THEN c - 71
  ELSE IF c >= 48 /\ c <= 57 THEN c + 4
  ELSE IF c = 43 THEN 62
  ELSE IF c = 47 THEN 63
  ELSE -1

StripPadding(d) ==
  IF Len(d) > 0 /\ Len(d) % 4 = 0 /\ d[Len(d)] = 61
  THEN IF d[Len(d) - 1] = 61 THEN SubSeq(d, 1, Len(d) - 2)
                             ELSE SubSeq(d, 1, Len(d) - 1)
  ELSE d

RECURSIVE DecodeSextets(_)
DecodeSextets(x) ==
  IF Len(x) >= 4 THEN
    LET v == B64Value(x[1]) * 262144 + B64Value(x[2]) * 4096
             + B64Value(x[3]) * 64 + B64Value(x[4])
    IN <<v \div 65536, (v \div 256) % 256, v % 256>>
         \o DecodeSextets(SubSeq(x, 5, Len(x)))
  ELSE IF Len(x) = 3 THEN
    LET v == B64Value(x[1]) * 4096 + B64Value(x[2]) * 64 + B64Value(x[3])
    IN <<v \div 1024, (v \div 4) % 256>>
  ELSE IF Len(x) = 2 THEN
    LET v == B64Value(x[1]) * 64 + B64Value(x[2])
    IN <<v \div 16>>
  ELSE <<>>

\* result: [ok |-> BOOLEAN, val |-> bytes]; ok = FALSE is the thrown
\* InvalidCharacterError
atob(d) ==
  LET x == StripPadding(d)
  IN IF Len(x) % 4 = 1 \/ (\E i \in 1..Len(x) : B64Value(x[i]) < 0)
     THEN [ok |-> FALSE, val |-> <<>>]
     ELSE [ok |-> TRUE, val |-> DecodeSextets(x)]

\* ------------------------------------------------------------------------
\* decodeURIComponent of "%xx" for every byte: UTF-8 decoding to UTF-16
\* code units; ok = FALSE is the thrown URIError
\* ------------------------------------------------------------------------
IsCont(b) == b >= 128 /\ b <= 191

RECURSIVE Utf8Decode(_)
Utf8Decode(b) ==
  IF b = <<>> THEN [ok |-> TRUE, val |-> <<>>]
  ELSE
    LET b1 == b[1]
        n == IF b1 < 128 THEN 1
             ELSE IF b1 >= 194 /\ b1 <= 223 THEN 2
             ELSE IF b1 >= 224 /\ b1 <= 239 THEN 3
             ELSE IF b1 >= 240 /\ b1 <= 244 THEN 4
             ELSE 0
        wellFormed ==
          /\ n > 0
          /\ Len(b) >= n
          /\ \A i \in 2..n : IsCont(b[i])
          /\ (b1 = 224 => b[2] >= 160)
          /\ (b1 = 237 => b[2] <= 159)
          /\ (b1 = 240 => b[2] >= 144)
          /\ (b1 = 244 => b[2] <= 143)
    IN IF ~wellFormed THEN [ok |-> FALSE, val |-> <<>>]
       ELSE
         LET cp == IF n = 1 THEN b1
                   ELSE IF n = 2 THEN (b1 - 192) * 64 + (b[2] - 128)
                   ELSE IF n = 3 THEN (b1 - 224) * 4096 + (b[2] - 128) * 64
                                      + (b[3] - 128)
                   ELSE (b1 - 240) * 262144 + (b[2] - 128) * 4096
                        + (b[3] - 128) * 64 + (b[4] - 128)
             units == IF cp < 65536 THEN <<cp>>
                      ELSE <<55296 + ((cp - 65536) \div 1024),
                             56320 + ((cp - 65536) % 1024)>>
             rest == Utf8Decode(SubSeq(b, n + 1, Len(b)))
         IN IF rest.ok THEN [ok |-> TRUE, val |-> units \o rest.val]
            ELSE rest

\* The outcome of a call: thrown = TRUE when an exception leaves the
\* function, val its return value otherwise
Ret(v) == [thrown |-> FALSE, val |-> v]
Raise(v) == [thrown |-> TRUE, val |-> v]

\* variant of base64UrlDecode that leaves - and _ in place
base64UrlDecodeOutcomeMutant(input) ==
  LET pad == Len(input) % 4
      normalized == IF pad # 0 THEN input \o Repeat(61, 4 - pad) ELSE input
      raw == atob(normalized)
      txt == IF raw.ok THEN Utf8Decode(raw.val) ELSE raw
  IN IF txt.ok THEN Ret(txt.val) ELSE Ret(<<>>)

\* base64UrlDecode(input): try { decodeURIComponent(atob(...)) }
\* catch { return "" }
base64UrlDecodeOutcome(input) ==
  LET pad == Len(input) % 4
      normalized == ReplaceUrlChars(IF pad # 0 THEN input \o Repeat(61, 4 - pad)
                                               ELSE input)
      raw == atob(normalized)
      txt == IF raw.ok THEN Utf8Decode(raw.val) ELSE raw
  IN IF txt.ok THEN Ret(txt.val) ELSE Ret(<<>>)

\* the string base64UrlDecode(input) returns
base64UrlDecode(input) == base64UrlDecodeOutcome(input).val

\* ------------------------------------------------------------------------
\* JSON.parse, for JSON texts without fractions, exponents and \u escapes
\* (the model's inputs stay inside this fragment).  A parse result is
\* [ok, val, pos]; ok = FALSE is the thrown SyntaxError.  Values:
\*   [t |-> "number", n |-> Int]      [t |-> "string", s |-> Seq]
\*   [t |-> "boolean", b |-> BOOLEAN] [t |-> "null"]
\*   [t |-> "array", items |-> Seq]   [t |-> "object", fields |-> Seq of
\*                                      [k |-> key, val |-> value]]
\* ------------------------------------------------------------------------
ParseFail == [ok |-> FALSE, val |-> Null, pos |-> 0]

IsWs(c) == c = 32 \/ c = 9 \/ c = 10 \/ c = 13
IsDigit(c) == c >= 48 /\ c <= 57

RECURSIVE SkipWs(_, _)
SkipWs(s, i) == IF i <= Len(s) /\ IsWs(s[i]) THEN SkipWs(s, i + 1) ELSE i

RECURSIVE ParseDigits(_, _, _)
ParseDigits(s, i, acc) ==
  IF i <= Len(s) /\ IsDigit(s[i])
  THEN ParseDigits(s, i + 1, acc * 10 + (s[i] - 48))
  ELSE [ok |-> TRUE, val |-> acc, pos |-> i]

ParseNumber(s, i) ==
  LET neg == i <= Len(s) /\ s[i] = 45
      j == IF neg THEN i + 1 ELSE i
  IN IF j > Len(s) \/ ~IsDigit(s[j]) THEN ParseFail
     ELSE
       LET d == IF s[j] = 48 THEN [ok |-> TRUE, val |-> 0, pos |-> j + 1]
                ELSE ParseDigits(s, j, 0)
       IN IF d.pos <= Len(s) /\ (IsDigit(s[d.pos]) \/ s[d.pos] \in {46, 69, 101})
          THEN ParseFail
          ELSE [ok |-> TRUE,
                val |-> [t |-> "number", n |-> IF neg THEN 0 - d.val ELSE d.val],
                pos |-> d.pos]

RECURSIVE ParseChars(_, _, _)
ParseChars(s, i, acc) ==
  IF i > Len(s) \/ s[i] < 32 THEN ParseFail
  ELSE IF s[i] = 34 THEN [ok |-> TRUE, val |-> acc, pos |-> i + 1]
  ELSE IF s[i] = 92
       THEN IF i + 1 <= Len(s) /\ s[i + 1] \in {34, 92, 47}
            THEN ParseChars(s, i + 2, Append(acc, s[i + 1]))
            ELSE ParseFail
  ELSE ParseChars(s, i + 1, Append(acc, s[i]))

ParseString(s, i) ==
  IF i <= Len(s) /\ s[i] = 34
  THEN LET r == ParseChars(s, i + 1, <<>>)
       IN IF r.ok THEN [ok |-> TRUE, val |-> [t |-> "string", s |-> r.val],
                        pos |-> r.pos]
          ELSE ParseFail
  ELSE ParseFail

StartsWith(s, i, w) == i + Len(w) - 1 <= Len(s) /\ SubSeq(s, i, i + Len(w) - 1) = w

RECURSIVE ParseValue(_, _)
RECURSIVE ParseMembers(_, _, _)
RECURSIVE ParseElements(_, _, _)

\* after "{" or ",": "key" : value, then "," or "}"
ParseMembers(s, i, acc) ==
  LET k == ParseString(s, SkipWs(s, i))
  IN IF ~k.ok THEN ParseFail
     ELSE
       LET c == SkipWs(s, k.pos)
       IN IF c > Len(s) \/ s[c] # 58 THEN ParseFail
          ELSE
            LET v == ParseValue(s, c + 1)
            IN IF ~v.ok THEN ParseFail
               ELSE
                 LET e == SkipWs(s, v.pos)
                     fields == Append(acc, [k |-> k.val.s, val |-> v.val])
                 IN IF e > Len(s) THEN ParseFail
                    ELSE IF s[e] = 44 THEN ParseMembers(s, e + 1, fields)
                    ELSE IF s[e] = 125
                         THEN [ok |-> TRUE,
                               val |-> [t |-> "object", fields |-> fields],
                               pos |-> e + 1]
                    ELSE ParseFail

ParseElements(s, i, acc) ==
  LET v == ParseValue(s, i)
  IN IF ~v.ok THEN ParseFail
     ELSE
       LET e == SkipWs(s, v.pos)
           items == Append(acc, v.val)
       IN IF e > Len(s) THEN ParseFail
          ELSE IF s[e] = 44 THEN ParseElements(s, e + 1, items)
          ELSE IF s[e] = 93
               THEN [ok |-> TRUE, val |-> [t |-> "array", items |-> items],
                     pos |-> e + 1]
          ELSE ParseFail

ParseValue(s, i0) ==
  LET i == SkipWs(s, i0)
  IN IF i > Len(s) THEN ParseFail
     ELSE IF s[i] = 123 THEN
       LET j == SkipWs(s, i + 1)
       IN IF j <= Len(s) /\ s[j] = 125
          THEN [ok |-> TRUE, val |-> [t |-> "object", fields |-> <<>>],
                pos |-> j + 1]
          ELSE ParseMembers(s, i + 1, <<>>)
     ELSE IF s[i] = 91 THEN
       LET j == SkipWs(s, i + 1)
       IN IF j <= Len(s) /\ s[j] = 93
          THEN [ok |-> TRUE, val |-> [t |-> "array", items |-> <<>>],
                pos |-> j + 1]
          ELSE ParseElements(s, i + 1, <<>>)
     ELSE IF s[i] = 34 THEN ParseString(s, i)
     ELSE IF s[i] = 45 \/ IsDigit(s[i]) THEN ParseNumber(s, i)
     ELSE IF StartsWith(s, i, <<116, 114, 117, 101>>)
          THEN [ok |-> TRUE, val |-> [t |-> "boolean", b |-> TRUE], pos |-> i + 4]
     ELSE IF StartsWith(s, i, <<102, 97, 108, 115, 101>>)
          THEN [ok |-> TRUE, val |-> [t |-> "boolean", b |-> FALSE], pos |-> i + 5]
     ELSE IF StartsWith(s, i, <<110, 117, 108, 108>>)
          THEN [ok |-> TRUE, val |-> Null, pos |-> i + 4]
     ELSE ParseFail

JSONparse(s) ==
  LET v == ParseValue(s, 1)
  IN IF v.ok /\ SkipWs(s, v.pos) = Len(s) + 1 THEN v ELSE ParseFail

\* property access value[key]: the last member named key of an object,
\* undefined otherwise
RECURSIVE LastField(_, _, _)
LastField(fields, key, i) ==
  IF i = 0 THEN Undefined
  ELSE IF fields[i].k = key THEN fields[i].val
  ELSE LastField(fields, key, i - 1)

GetProp(v, key) ==
  IF v.t = "object" THEN LastField(v.fields, key, Len(v.fields)) ELSE Undefined

\* a string value of the program
Str(s) == [t |-> "string", s |-> s]

\* !v for the values the guard tests: null, undefined, "" and 0 are falsy
Falsy(v) ==
  \/ v.t \in {"null", "undefined"}
  \/ (v.t = "string" /\ v.s = <<>>)
  \/ (v.t = "number" /\ v.n = 0)
  \/ (v.t = "boolean" /\ ~v.b)

\* ------------------------------------------------------------------------
\* State
\* ------------------------------------------------------------------------
VARIABLES
  hasWindow,      \* typeof window !== "undefined"
  storageFails,   \* window.localStorage access throws
  store,          \* localStorage[TOKEN_KEY]: Null or a string value
  clockMs,        \* Date.now()
  base,           \* process.env.NEXT_PUBLIC_PY_API_URL
  mounted,        \* an AppFrame instance exists
  pathname,       \* usePathname()
  checking,       \* useState(!isLogin)
  me,             \* useState<MeResponse | null>(null)
  effectPending,  \* the effect's dependencies changed and it has not run yet
  req,            \* the fetch of the current effect run
  abortPending,   \* an aborted fetch whose rejection has not been handled yet
  redirect,       \* target of the last router.replace not yet committed
  issued,         \* requests issued by the current effect run
  lastOp,         \* the handler (and branch) that ran last
  error,          \* error thrown to the caller by the last operation
  call            \* last library call and its result

\* HomeClient
VARIABLES
  homeMounted,        \* a HomeClient instance exists
  tab,                \* normalizeTab(searchParams.get("tab"))
  q,                  \* searchParams.get("q") ?? ""
  page,               \* Math.max(1, Number(searchParams.get("page")) || 1)
  reportType,         \* the report filters (from, to, maintenance_type)
  homeEffectPending,  \* the effects are scheduled and have not run yet
  runQuery,           \* tab, q, page and filters captured by the current run
  inflight,           \* pending load requests, each with its run's alive flag
  metrics,            \* useState<DashboardMetrics | null>(null)
  devicesLoading,     \* useState(false)
  devicesError,       \* useState<string | null>(null)
  devicesData,        \* useState<... | null>(null)
  reportLoading,      \* useState(false)
  reportError,        \* useState<string | null>(null)
  report              \* useState<MaintenanceReportResponse | null>(null)

\* the state HomeClient renders from
homeState == <<metrics, devicesLoading, devicesError, devicesData,
               reportLoading, reportError, report>>

homeVars == <<homeMounted, tab, q, page, reportType, homeEffectPending,
              runQuery, inflight, homeState>>

vars == <<hasWindow, storageFails, store, clockMs, base, mounted, pathname,
          checking, me, effectPending, req, abortPending, redirect, issued,
          lastOp, error, call, homeVars>>

guardVars == <<mounted, pathname, checking, me, effectPending, req,
               abortPending, redirect, issued>>

\* ------------------------------------------------------------------------
\* Token store (lib/auth)
\* ------------------------------------------------------------------------
\* getToken(): null without a window; try { return getItem(TOKEN_KEY) }
\* catch { return null }
getTokenOutcome ==
  IF ~hasWindow THEN Ret(Null)
  ELSE IF storageFails THEN Ret(Null)
  ELSE Ret(store)

\* getToken(): the stored credential, null without a window or when the
\* storage access throws
getToken == getTokenOutcome.val

\* clearToken(): nothing without a window, else removeItem(TOKEN_KEY) with
\* no try around it; val is the slot afterwards
clearTokenOutcome ==
  IF ~hasWindow THEN Ret(store)
  ELSE IF storageFails THEN Raise(store)
  ELSE Ret(Null)

\* the slot after clearToken()
clearToken == clearTokenOutcome.val

\* variant of setToken that does not overwrite a stored credential
setTokenOutcomeMutant(token) ==
  IF ~hasWindow THEN Ret(store)
  ELSE IF storageFails THEN Raise(store)
  ELSE IF store # Null THEN Ret(store)
  ELSE Ret(token)

\* setToken(token): nothing without a window, else setItem(TOKEN_KEY, token)
\* with no try around it; val is the slot afterwards
setTokenOutcome(token) ==
  IF ~hasWindow THEN Ret(store)
  ELSE IF storageFails THEN Raise(store)
  ELSE Ret(token)

\* the slot after setToken(token)
setToken(token) == setTokenOutcome(token).val

\* ------------------------------------------------------------------------
\* Credential decoder and expiry evaluator (lib/auth)
\* ------------------------------------------------------------------------
\* variant of getTokenPayload without the try around JSON.parse
getTokenPayloadOutcomeMutant(token) ==
  LET t == IF token.t \in {"null", "undefined"} THEN getToken ELSE token
  IN IF Falsy(t) THEN Ret(Null)
     ELSE
       LET parts == SplitDot(t.s)
       IN IF Len(parts) < 2 THEN Ret(Null)
          ELSE
            LET json == base64UrlDecode(parts[2])
            IN IF json = <<>> THEN Ret(Null)
               ELSE LET r == JSONparse(json)
                    IN IF r.ok THEN Ret(r.val) ELSE Raise(Null)

\* getTokenPayload(token): token ?? getToken(), split, base64UrlDecode of
\* the second segment, try { JSON.parse } catch { return null }
getTokenPayloadOutcome(token) ==
  LET g == getTokenOutcome
      t == IF token.t \in {"null", "undefined"} THEN g.val ELSE token
  IN IF token.t \in {"null", "undefined"} /\ g.thrown THEN Raise(Null)
     ELSE IF Falsy(t) THEN Ret(Null)
     ELSE
       LET parts == SplitDot(t.s)
       IN IF Len(parts) < 2 THEN Ret(Null)
          ELSE
            LET d == base64UrlDecodeOutcome(parts[2])
            IN IF d.thrown THEN Raise(Null)
               ELSE IF d.val = <<>> THEN Ret(Null)
               ELSE LET r == JSONparse(d.val)
                    IN IF r.ok THEN Ret(r.val) ELSE Ret(Null)

\* getTokenPayload(token): the claims, or Null
getTokenPayload(token) == getTokenPayloadOutcome(token).val

\* Math.floor(Date.now() / 1000)
NowSeconds == clockMs \div 1000

Max(a, b) == IF a >= b THEN a ELSE b

\* variant of isTokenExpired with a strict comparison (now > exp - skew)
isTokenExpiredMutant(token, skewSeconds) ==
  LET exp == GetProp(getTokenPayload(token), <<101, 120, 112>>)
  IN IF Falsy(exp) \/ exp.t # "number" THEN TRUE
     ELSE NowSeconds > exp.n - Max(0, skewSeconds)

\* the body of isTokenExpired once the payload is known: const exp =
\* payload?.exp; if (!exp || typeof exp !== "number") return true; return
\* now >= exp - Math.max(0, skewSeconds)
ExpiredBy(exp, skewSeconds) ==
  IF Falsy(exp) \/ exp.t # "number" THEN TRUE
  ELSE NowSeconds >= exp.n - Max(0, skewSeconds)

\* isTokenExpired(token, skewSeconds)
isTokenExpired(token, skewSeconds) ==
  ExpiredBy(GetProp(getTokenPayload(token), <<101, 120, 112>>), skewSeconds)

\* variant of isTokenExpired that treats a credential without a usable exp
\* as not expired
ExpiredOutcomeMutant(p, skewSeconds) ==
  IF p.thrown THEN Raise(FALSE)
  ELSE Ret(ExpiredBy(GetProp(p.val, <<101, 120, 112>>), skewSeconds)
           /\ ~Falsy(GetProp(p.val, <<101, 120, 112>>)))

\* isTokenExpired(token, skewSeconds) as a call on the outcome p of
\* getTokenPayload: nothing in it throws unless getTokenPayload does
ExpiredOutcome(p, skewSeconds) ==
  IF p.thrown THEN Raise(FALSE)
  ELSE Ret(ExpiredBy(GetProp(p.val, <<101, 120, 112>>), skewSeconds))

\* isTokenExpired(token, skewSeconds) as a call
isTokenExpiredOutcome(token, skewSeconds) ==
  ExpiredOutcome(getTokenPayloadOutcome(token), skewSeconds)

\* ------------------------------------------------------------------------
\* Building credentials: header.payload.signature with the payload the
\* unpadded URL-safe base64 of the claims text
\* ------------------------------------------------------------------------
B64UrlChar(v) ==
  IF v < 26 THEN v + 65
  ELSE IF v < 52 THEN v + 71
  ELSE IF v < 62 THEN v - 4
  ELSE IF v = 62 THEN 45
  ELSE 95

RECURSIVE Base64UrlEncode(_)
Base64UrlEncode(b) ==
  IF Len(b) >= 3 THEN
    LET v == b[1] * 65536 + b[2] * 256 + b[3]
    IN <<B64UrlChar(v \div 262144), B64UrlChar((v \div 4096) % 64),
         B64UrlChar((v \div 64) % 64), B64UrlChar(v % 64)>>
         \o Base64UrlEncode(SubSeq(b, 4, Len(b)))
  ELSE IF Len(b) = 2 THEN
    LET v == (b[1] * 256 + b[2]) * 4
    IN <<B64UrlChar(v \div 4096), B64UrlChar((v \div 64) % 64),
         B64UrlChar(v % 64)>>
  ELSE IF Len(b) = 1 THEN
    LET v == b[1] * 16
    IN <<B64UrlChar(v \div 64), B64UrlChar(v % 64)>>
  ELSE <<>>

RECURSIVE Digits(_)
Digits(n) == IF n < 10 THEN <<48 + n>> ELSE Digits(n \div 10) \o <<48 + (n % 10)>>

\* {"alg":"none"} . claims . sig
MakeToken(claimsText) ==
  Str(Base64UrlEncode(<<123, 34, 97, 108, 103, 34, 58, 34, 110, 111, 110, 101, 34, 125>>)
      \o <<46>> \o Base64UrlEncode(claimsText) \o <<46, 115, 105, 103>>)

\* {"exp":n}
ExpClaims(n) == <<123, 34, 101, 120, 112, 34, 58>> \o Digits(n) \o <<125>>

\* ------------------------------------------------------------------------
\* Inputs of the model
\* ------------------------------------------------------------------------
ShortExp == 32
LongExp == 99

\* a credential expiring during the run, a long-lived one, one without exp
\* ({}), and a malformed one (abc)
TokShort == MakeToken(ExpClaims(ShortExp))
TokLong == MakeToken(ExpClaims(LongExp))
TokNoExp == MakeToken(<<123, 125>>)
TokBad == Str(<<97, 98, 99>>)
Tokens == {TokShort, TokLong, TokNoExp, TokBad}

\* NEXT_PUBLIC_PY_API_URL: unset, empty, or http://api
BaseSet == Str(<<104, 116, 116, 112, 58, 47, 47, 97, 112, 105>>)
Bases == {Undefined, Str(<<>>), BaseSet}

Paths == {"/login", "/", "/devices"}

\* response bodies: {"username":"ana"},
\* {"username":"bob","display_name":"Bob"} and <html>
BodyAna == <<123, 34, 117, 115, 101, 114, 110, 97, 109, 101, 34, 58, 34, 97,
             110, 97, 34, 125>>
BodyBob == <<123, 34, 117, 115, 101, 114, 110, 97, 109, 101, 34, 58, 34, 98,
             111, 98, 34, 44, 34, 100, 105, 115, 112, 108, 97, 121, 95, 110,
             97, 109, 101, 34, 58, 34, 66, 111, 98, 34, 125>>
BodyHtml == <<60, 104, 116, 109, 108, 62>>

\* what the identity endpoint (or the transport) answers
Responses ==
  [kind : {"http"}, status : {200}, body : {BodyAna, BodyBob, BodyHtml}]
    \cup [kind : {"http"}, status : {401, 500}, body : {<<>>}]
    \cup [kind : {"network"}, status : {0}, body : {<<>>}]

NoRes == [kind |-> "none", status |-> 0, body |-> <<>>]
NoReq == [status |-> "none", bearer |-> Null, res |-> NoRes]
NoCall == [op |-> "none"]

\* ------------------------------------------------------------------------
\* AppFrame (components/app/AppFrame.tsx)
\* ------------------------------------------------------------------------
isLogin == pathname = "/login"

\* what the component renders: the "Verificando sessao..." screen, the
\* login page (children of /login) or the protected frame with its children
\* and the "Sair" button
View ==
  IF ~mounted THEN "none"
  ELSE IF ~isLogin /\ checking THEN "checking"
  ELSE IF isLogin THEN "login"
  ELSE "protected"

\* res.ok
ResOk(res) == res.status >= 200 /\ res.status <= 299

\* the stored credential is present and not locally expired
\* (t && !isTokenExpired(t))
StoredValid ==
  ~Falsy(getToken) /\ ~isTokenExpired(getToken, DefaultSkew)

\* variant of FetchCatch that redirects without clearToken()
FetchCatchMutant ==
  /\ store' = store
  /\ redirect' = "/login"

\* .catch(() => { clearToken(); router.replace("/login"); })
FetchCatch ==
  /\ store' = clearToken
  /\ redirect' = "/login"

\* variant of ThenOk without setChecking(false)
ThenOkMutant(data) ==
  /\ me' = data
  /\ checking' = checking

\* .then((data) => { setMe(data); setChecking(false); })
ThenOk(data) ==
  /\ me' = data
  /\ checking' = FALSE

\* variant of Settle that issues the request again after a failure
SettleMutant(res) ==
  IF res.kind = "http" /\ ResOk(res)
  THEN /\ req' = [req EXCEPT !.status = "done", !.res = res]
       /\ issued' = issued
  ELSE /\ req' = [req EXCEPT !.res = res]
       /\ issued' = 2

\* the fetch is settled by res: the chain runs once and issues nothing more
Settle(res) ==
  /\ req' = [req EXCEPT !.status = "done", !.res = res]
  /\ issued' = issued

\* no query: the value of runQuery before the first run of the effect
NoQuery == [tab |-> "none", q |-> "", page |-> 0, reportType |-> "none"]

\* no HomeClient instance
HomeIdle ==
  /\ homeMounted = FALSE
  /\ tab = "dispositivos"
  /\ q = ""
  /\ page = 1
  /\ reportType = "Ambas"
  /\ homeEffectPending = FALSE
  /\ runQuery = NoQuery
  /\ inflight = {}
  /\ metrics = Null
  /\ devicesLoading = FALSE
  /\ devicesError = Null
  /\ devicesData = Null
  /\ reportLoading = FALSE
  /\ reportError = Null
  /\ report = Null

\* Initial state: a freshly constructed AppFrame on some path, before its
\* effect has run; the browser storage holds whatever an earlier visit left
Init ==
  /\ hasWindow = TRUE
  /\ storageFails = FALSE
  /\ store \in Tokens \cup {Null}
  /\ clockMs = 0
  /\ base \in Bases
  /\ mounted = TRUE
  /\ pathname \in Paths
  /\ checking = ~isLogin
  /\ me = Null
  /\ effectPending = TRUE
  /\ req = NoReq
  /\ abortPending = FALSE
  /\ redirect = "none"
  /\ issued = 0
  /\ lastOp = "mount"
  /\ error = "none"
  /\ call = NoCall
  /\ HomeIdle

\* the login branch of the effect: redirect home when a valid credential
\* is stored, then setChecking(false)
EffectLogin ==
  LET t == getToken
  IN /\ redirect' = IF ~Falsy(t) /\ ~isTokenExpired(t, DefaultSkew)
                    THEN "/" ELSE redirect
     /\ checking' = FALSE
     /\ req' = NoReq
     /\ issued' = 0
     /\ lastOp' = "effect:login"
     /\ UNCHANGED <<store, me>>

\* variant of EffectNoToken that goes on to the fetch instead of returning
EffectNoTokenMutant ==
  /\ store' = clearToken
  /\ redirect' = "/login"
  /\ req' = [status |-> "inflight", bearer |-> getToken, res |-> NoRes]
  /\ issued' = 1
  /\ lastOp' = "effect:noToken"
  /\ UNCHANGED <<checking, me>>

\* no credential or locally expired: clearToken(), replace("/login"), return
EffectNoToken ==
  /\ store' = clearToken
  /\ redirect' = "/login"
  /\ req' = NoReq
  /\ issued' = 0
  /\ lastOp' = "effect:noToken"
  /\ UNCHANGED <<checking, me>>

\* variant of EffectNoBase that returns without setChecking(false)
EffectNoBaseMutant ==
  /\ checking' = checking
  /\ req' = NoReq
  /\ issued' = 0
  /\ lastOp' = "effect:noBase"
  /\ UNCHANGED <<store, me, redirect>>

\* base URL not configured: setChecking(false), return
EffectNoBase ==
  /\ checking' = FALSE
  /\ req' = NoReq
  /\ issued' = 0
  /\ lastOp' = "effect:noBase"
  /\ UNCHANGED <<store, me, redirect>>

\* variant of EffectFetch without setChecking(true)
EffectFetchMutant(token) ==
  /\ checking' = checking
  /\ req' = [status |-> "inflight", bearer |-> token, res |-> NoRes]
  /\ issued' = 1
  /\ lastOp' = "effect:fetch"
  /\ UNCHANGED <<store, me, redirect>>

\* setChecking(true) and fetch(`${base}/api/auth/me`) with the bearer token
EffectFetch(token) ==
  /\ checking' = TRUE
  /\ req' = [status |-> "inflight", bearer |-> token, res |-> NoRes]
  /\ issued' = 1
  /\ lastOp' = "effect:fetch"
  /\ UNCHANGED <<store, me, redirect>>

\* useEffect(..., [isLogin, router]): the cleanup of the previous run
\* (ctrl.abort()) followed by the body
useEffect ==
  /\ mounted /\ effectPending /\ ~abortPending
  /\ effectPending' = FALSE
  /\ abortPending' = (req.status = "inflight")
  /\ error' = "none"
  /\ IF isLogin THEN EffectLogin
     ELSE LET token == getToken
          IN IF Falsy(token) \/ isTokenExpired(token, DefaultSkew)
             THEN EffectNoToken
             ELSE IF Falsy(base) THEN EffectNoBase
             ELSE EffectFetch(token)
  /\ UNCHANGED <<homeVars, hasWindow, storageFails, clockMs, base, mounted, pathname, call>>

\* the promise chain of an aborted fetch: the rejection (AbortError) skips
\* both .then and runs .catch, before any other event is handled
fetchAborted ==
  /\ abortPending
  /\ abortPending' = FALSE
  /\ FetchCatch
  /\ lastOp' = "catch:abort"
  /\ error' = "none"
  /\ UNCHANGED <<homeVars, hasWindow, storageFails, clockMs, base, mounted, pathname,
                 checking, me, effectPending, req, issued, call>>

\* the promise chain of the fetch when the endpoint answers or the
\* transport fails: .then(status checks, res.json()).then(setMe,
\* setChecking).catch(clearToken, replace)
fetchSettled(res) ==
  /\ req.status = "inflight" /\ ~abortPending
  /\ Settle(res)
  /\ error' = "none"
  /\ IF res.kind = "http" /\ res.status # 401 /\ ResOk(res) /\ JSONparse(res.body).ok
     THEN /\ ThenOk(JSONparse(res.body).val)
          /\ lastOp' = "then:ok"
          /\ UNCHANGED <<store, redirect>>
     ELSE /\ FetchCatch
          /\ lastOp' = IF res.kind = "network" THEN "catch:network"
                       ELSE IF res.status = 401 THEN "catch:401"
                       ELSE IF ~ResOk(res) THEN "catch:status"
                       ELSE "catch:json"
          /\ UNCHANGED <<me, checking>>
  /\ UNCHANGED <<homeVars, hasWindow, storageFails, clockMs, base, mounted, pathname,
                 effectPending, abortPending, call>>

\* variant of onLogout without clearToken()
onLogoutMutant ==
  /\ View = "protected" /\ ~abortPending
  /\ store' = store
  /\ redirect' = "/login"
  /\ lastOp' = IF lastOp \in {"onLogout", "onLogout:again"}
               THEN "onLogout:again" ELSE "onLogout"
  /\ error' = "none"
  /\ UNCHANGED <<homeVars, hasWindow, storageFails, clockMs, base, mounted, pathname,
                 checking, me, effectPending, req, abortPending, issued, call>>

\* onLogout, the onClick of the "Sair" button of the protected frame
onLogout ==
  /\ View = "protected" /\ ~abortPending
  /\ store' = clearToken
  /\ redirect' = "/login"
  /\ lastOp' = IF lastOp \in {"onLogout", "onLogout:again"}
               THEN "onLogout:again" ELSE "onLogout"
  /\ error' = "none"
  /\ UNCHANGED <<homeVars, hasWindow, storageFails, clockMs, base, mounted, pathname,
                 checking, me, effectPending, req, abortPending, issued, call>>

\* the pathname changes to p and AppFrame re-renders; the effect is
\* scheduled again when isLogin changed
PathChange(p) ==
  /\ pathname' = p
  /\ effectPending' = ((p = "/login") # isLogin)
  /\ error' = "none"
  /\ UNCHANGED <<homeVars, hasWindow, storageFails, store, clockMs, base, mounted,
                 checking, me, req, abortPending, issued, call>>

\* the user follows a link or uses back/forward
Navigate(p) ==
  /\ mounted /\ ~effectPending /\ ~abortPending
  /\ p # pathname
  /\ PathChange(p)
  /\ lastOp' = "navigate"
  /\ UNCHANGED redirect

\* the navigation requested by router.replace takes place
Redirected ==
  /\ mounted /\ ~effectPending /\ ~abortPending
  /\ redirect # "none"
  /\ PathChange(redirect)
  /\ redirect' = "none"
  /\ lastOp' = "redirected"

\* the AppFrame instance is torn down: the cleanup of its effect runs
Unmount ==
  /\ mounted /\ ~abortPending
  /\ mounted' = FALSE
  /\ abortPending' = (req.status = "inflight")
  /\ req' = NoReq
  /\ effectPending' = FALSE
  /\ lastOp' = "unmount"
  /\ error' = "none"
  /\ UNCHANGED <<homeVars, hasWindow, storageFails, store, clockMs, base, pathname,
                 checking, me, redirect, issued, call>>

\* a new AppFrame instance is constructed on path p
Mount(p) ==
  /\ ~mounted /\ ~abortPending
  /\ mounted' = TRUE
  /\ pathname' = p
  /\ checking' = (p # "/login")
  /\ me' = Null
  /\ effectPending' = TRUE
  /\ req' = NoReq
  /\ redirect' = "none"
  /\ issued' = 0
  /\ lastOp' = "mount"
  /\ error' = "none"
  /\ UNCHANGED <<homeVars, hasWindow, storageFails, store, clockMs, base, abortPending, call>>

\* the login page stores the credential it obtained: setToken(t)
Login(t) ==
  /\ View = "login" /\ ~abortPending
  /\ store' = setToken(t)
  /\ lastOp' = "setToken"
  /\ error' = "none"
  /\ UNCHANGED <<homeVars, hasWindow, storageFails, clockMs, base, call>>
  /\ UNCHANGED guardVars

\* half a second passes
Tick ==
  /\ ~abortPending
  /\ clockMs + 500 <= MaxNow * 1000
  /\ clockMs' = clockMs + 500
  /\ lastOp' = "tick"
  /\ UNCHANGED <<homeVars, hasWindow, storageFails, store, base, error, call>>
  /\ UNCHANGED guardVars

Next ==
  \/ useEffect
  \/ fetchAborted
  \/ \E res \in Responses : fetchSettled(res)
  \/ onLogout
  \/ \E p \in Paths : Navigate(p)
  \/ Redirected
  \/ Unmount
  \/ \E p \in Paths : Mount(p)
  \/ \E t \in Tokens : Login(t)
  \/ Tick

Spec == Init /\ [][Next]_vars

\* The guard with its scheduling: React runs a scheduled effect, the
\* rejection of an aborted fetch is delivered, and the identity endpoint
\* eventually answers or the transport fails
\* weak fairness of useEffect is written out as "infinitely often not
\* scheduled, or infinitely often run": EffectScheduled is the guard of
\* useEffect, whose body always has a next state and resets effectPending
EffectScheduled == mounted /\ effectPending /\ ~abortPending

Fairness ==
  /\ ([]<>(~EffectScheduled) \/ []<><<useEffect>>_vars)
  /\ WF_vars(fetchAborted)
  /\ WF_vars(\E res \in Responses : fetchSettled(res))

SpecLive == Init /\ [][Next]_vars /\ Fairness

\* ------------------------------------------------------------------------
\* Library calls: the device API wrappers and the exported auth helpers,
\* each called once on inputs drawn from the sets below, at any time
\* ------------------------------------------------------------------------
\* getBaseUrl(): throws when NEXT_PUBLIC_PY_API_URL is not configured
getBaseUrl ==
  IF Falsy(base) THEN [ok |-> FALSE, val |-> <<>>]
  ELSE [ok |-> TRUE, val |-> base.s]

ApiOps == {"getDeviceDetail", "getDeviceComponents", "getDeviceNotes",
           "createDeviceNote", "updateDeviceNote", "deleteDeviceNote",
           "getDeviceMaintenance", "createMaintenance", "updateMaintenance",
           "deleteMaintenance"}

\* an API wrapper: the URL is built from getBaseUrl() before the fetch, so
\* the configuration error is thrown to the caller and nothing is requested
ApiCall(op) ==
  /\ call = NoCall
  /\ call' = [op |-> op, requested |-> getBaseUrl.ok, url |-> getBaseUrl.val]
  /\ error' = IF getBaseUrl.ok THEN "none" ELSE "config"
  /\ lastOp' = "api"
  /\ UNCHANGED <<homeVars, hasWindow, storageFails, store, clockMs, base>>
  /\ UNCHANGED guardVars

\* the number n as JSON text
NumText(n) == IF n < 0 THEN <<45>> \o Digits(0 - n) ELSE Digits(n)

\* skew arguments tried, and exp claims tried
Skews == {-5, 0, 7, 30, 40}
Exps == (-1 .. MaxExp) \cup {NowSeconds + 10, NowSeconds + 100}

\* isTokenExpired(token, skew) on a credential whose claims are {"exp":e}
CallIsTokenExpired(e, skew) ==
  /\ call = NoCall
  /\ call' = [op |-> "isTokenExpired", exp |-> e, skew |-> skew,
              defaulted |-> FALSE, now |-> NowSeconds,
              result |-> isTokenExpired(
                 MakeToken(<<123, 34, 101, 120, 112, 34, 58>> \o NumText(e) \o <<125>>),
                 skew)]
  /\ lastOp' = "isTokenExpired"
  /\ UNCHANGED <<homeVars, hasWindow, storageFails, store, clockMs, base, error>>
  /\ UNCHANGED guardVars

\* isTokenExpired(token): skewSeconds takes its default
CallIsTokenExpiredDefault(e) ==
  /\ call = NoCall
  /\ call' = [op |-> "isTokenExpired", exp |-> e, skew |-> DefaultSkew,
              defaulted |-> TRUE, now |-> NowSeconds,
              result |-> isTokenExpired(
                 MakeToken(<<123, 34, 101, 120, 112, 34, 58>> \o NumText(e) \o <<125>>),
                 DefaultSkew)]
  /\ lastOp' = "isTokenExpired"
  /\ UNCHANGED <<homeVars, hasWindow, storageFails, store, clockMs, base, error>>
  /\ UNCHANGED guardVars

\* ------------------------------------------------------------------------
\* Credentials whose claims cannot be decoded, each with the step that
\* fails: why = "segments" (no dot), "base64", "utf8", "empty" (the second
\* segment decodes to the empty text) or "json"
\* ------------------------------------------------------------------------
MaxSegLen == 3

\* a, e, -, =
SegAlphabet == {97, 101, 45, 61}

\* every string of at most MaxSegLen characters without a dot
NoDotStrings == UNION {[1..n -> SegAlphabet] : n \in 0..MaxSegLen}

\* a.!!.c, a.e.c, a.a=b.c and a.e*ee.c: not base64
BadBase64Tokens ==
  {Str(<<97, 46, 33, 33, 46, 99>>), Str(<<97, 46, 101, 46, 99>>), Str(<<97, 46, 97, 61, 98, 46, 99>>), Str(<<97, 46, 101, 42, 101, 101, 46, 99>>)}

\* a._w.c, a.wA.c, a.gA.c and a.7aCA.c: the bytes FF, C0, 80 and ED A0 80 are
\* not UTF-8
BadUtf8Tokens ==
  {Str(<<97, 46, 95, 119, 46, 99>>), Str(<<97, 46, 119, 65, 46, 99>>), Str(<<97, 46, 103, 65, 46, 99>>), Str(<<97, 46, 55, 97, 67, 65, 46, 99>>)}

\* a..c and a.
EmptyPayloadTokens == {Str(<<97, 46, 46, 99>>), Str(<<97, 46>>)}

\* <html>, {, {"exp":}, {'exp':1} and {"exp":1}} as claims text
BadJsonTexts ==
  {BodyHtml, <<123>>, <<123, 34, 101, 120, 112, 34, 58, 125>>, <<123, 39, 101, 120, 112, 39, 58, 49, 125>>, <<123, 34, 101, 120, 112, 34, 58, 49, 125, 125>>}

Undecodable ==
  [tok : {Str(s) : s \in NoDotStrings} \cup {TokBad}, why : {"segments"}]
    \cup [tok : BadBase64Tokens, why : {"base64"}]
    \cup [tok : BadUtf8Tokens, why : {"utf8"}]
    \cup [tok : EmptyPayloadTokens, why : {"empty"}]
    \cup [tok : {MakeToken(x) : x \in BadJsonTexts}, why : {"json"}]

\* claims that decode but carry no usable exp: {}, {"sub":"a"},
\* {"exp":"99"}, {"exp":null}, {"exp":true}, {"exp":[99]}, {"exp":{}},
\* and the claims texts 5, "exp", [99], true and null
NoExpTexts ==
  {<<123, 125>>, <<123, 34, 115, 117, 98, 34, 58, 34, 97, 34, 125>>,
   <<123, 34, 101, 120, 112, 34, 58, 34, 57, 57, 34, 125>>, <<123, 34, 101, 120, 112, 34, 58, 110, 117, 108, 108, 125>>,
   <<123, 34, 101, 120, 112, 34, 58, 116, 114, 117, 101, 125>>, <<123, 34, 101, 120, 112, 34, 58, 91, 57, 57, 93, 125>>,
   <<123, 34, 101, 120, 112, 34, 58, 123, 125, 125>>, <<53>>, <<34, 101, 120, 112, 34>>, <<91, 57, 57, 93>>, <<116, 114, 117, 101>>,
   <<110, 117, 108, 108>>}

\* the credentials isTokenExpired must treat as expired: undecodable ones,
\* ones without a numeric exp, and no credential at all
FailClosedInputs ==
  Undecodable
    \cup [tok : {MakeToken(x) : x \in NoExpTexts}, why : {"exp"}]
    \cup [tok : {Null, Undefined}, why : {"absent"}]

\* isTokenExpired(token, skew) on a credential without usable claims
CallIsTokenExpiredOn(c, skew) ==
  /\ call = NoCall
  /\ \E r \in {isTokenExpiredOutcome(c.tok, skew)} :
        call' = [op |-> "isTokenExpired:unusable", token |-> c.tok,
                 why |-> c.why, skew |-> skew, now |-> NowSeconds,
                 thrown |-> r.thrown, result |-> r.val]
  /\ lastOp' = "isTokenExpired:unusable"
  /\ UNCHANGED <<homeVars, hasWindow, storageFails, store, clockMs, base, error>>
  /\ UNCHANGED guardVars

\* getTokenPayload(token) on a credential that cannot be decoded
CallGetTokenPayloadOn(c) ==
  /\ call = NoCall
  /\ \E r \in {getTokenPayloadOutcome(c.tok)} :
        call' = [op |-> "getTokenPayload:undecodable", token |-> c.tok,
                 why |-> c.why, thrown |-> r.thrown, result |-> r.val]
  /\ lastOp' = "getTokenPayload:undecodable"
  /\ UNCHANGED <<homeVars, hasWindow, storageFails, store, clockMs, base, error>>
  /\ UNCHANGED guardVars

\* ------------------------------------------------------------------------
\* Encoding a claims record into a credential: JSON text, UTF-8 bytes,
\* URL-safe unpadded base64, between a header and a signature
\* ------------------------------------------------------------------------
Num(n) == [t |-> "number", n |-> n]
Bool(b) == [t |-> "boolean", b |-> b]
Arr(items) == [t |-> "array", items |-> items]
Obj(fields) == [t |-> "object", fields |-> fields]
Field(k, v) == [k |-> k, val |-> v]

\* the characters of a string between quotes, " and \ escaped
RECURSIVE EscapeChars(_)
EscapeChars(cs) ==
  IF cs = <<>> THEN <<>>
  ELSE (IF Head(cs) \in {34, 92} THEN <<92, Head(cs)>> ELSE <<Head(cs)>>)
         \o EscapeChars(Tail(cs))

QuoteText(cs) == <<34>> \o EscapeChars(cs) \o <<34>>

RECURSIVE JsonStringify(_)
RECURSIVE StringifyElements(_, _)
RECURSIVE StringifyMembers(_, _)

StringifyElements(items, i) ==
  IF i > Len(items) THEN <<>>
  ELSE (IF i > 1 THEN <<44>> ELSE <<>>) \o JsonStringify(items[i])
         \o StringifyElements(items, i + 1)

StringifyMembers(fields, i) ==
  IF i > Len(fields) THEN <<>>
  ELSE (IF i > 1 THEN <<44>> ELSE <<>>) \o QuoteText(fields[i].k) \o <<58>>
         \o JsonStringify(fields[i].val) \o StringifyMembers(fields, i + 1)

JsonStringify(v) ==
  IF v.t = "string" THEN QuoteText(v.s)
  ELSE IF v.t = "number" THEN NumText(v.n)
  ELSE IF v.t = "boolean"
       THEN (IF v.b THEN <<116, 114, 117, 101>> ELSE <<102, 97, 108, 115, 101>>)
  ELSE IF v.t = "array" THEN <<91>> \o StringifyElements(v.items, 1) \o <<93>>
  ELSE IF v.t = "object" THEN <<123>> \o StringifyMembers(v.fields, 1) \o <<125>>
  ELSE <<110, 117, 108, 108>>

\* the UTF-8 bytes of a text given as UTF-16 code units
RECURSIVE Utf8Encode(_)
Utf8Encode(u) ==
  IF u = <<>> THEN <<>>
  ELSE
    LET c == Head(u)
        pair == c >= 55296 /\ c <= 56319 /\ Len(u) >= 2
                /\ u[2] >= 56320 /\ u[2] <= 57343
        cp == IF pair THEN 65536 + (c - 55296) * 1024 + (u[2] - 56320) ELSE c
        bytes == IF cp < 128 THEN <<cp>>
                 ELSE IF cp < 2048
                      THEN <<192 + (cp \div 64), 128 + (cp % 64)>>
                 ELSE IF cp < 65536
                      THEN <<224 + (cp \div 4096), 128 + ((cp \div 64) % 64),
                             128 + (cp % 64)>>
                 ELSE <<240 + (cp \div 262144), 128 + ((cp \div 4096) % 64),
                        128 + ((cp \div 64) % 64), 128 + (cp % 64)>>
    IN bytes \o Utf8Encode(SubSeq(u, IF pair THEN 3 ELSE 2, Len(u)))

EncodePayload(claims) == Base64UrlEncode(Utf8Encode(JsonStringify(claims)))

\* header . payload . signature
MakeCredential(header, claims, sig) ==
  Str(Base64UrlEncode(header) \o <<46>> \o EncodePayload(claims) \o <<46>> \o sig)

\* claims records tried: {"sub":"a"}, {"exp":99,"iat":0,"n":-5}, {"k":"???"}
\* and {"k":">>>"} (payloads with _ and -), {"name":"Zé","groups":["a","b"]},
\* {"q":"a\"b\\c/"}, {}, {"o":{"n":null},"l":[true]}, {"f":false,"l":[]}
\* and {"e":"<U+1F600>"}
ClaimsRecords ==
  {Obj(<<Field(<<115, 117, 98>>, Str(<<97>>))>>),
   Obj(<<Field(<<101, 120, 112>>, Num(99)), Field(<<105, 97, 116>>, Num(0)),
         Field(<<110>>, Num(-5))>>),
   Obj(<<Field(<<107>>, Str(<<63, 63, 63>>))>>),
   Obj(<<Field(<<107>>, Str(<<62, 62, 62>>))>>),
   Obj(<<Field(<<110, 97, 109, 101>>, Str(<<90, 233>>)),
         Field(<<103, 114, 111, 117, 112, 115>>, Arr(<<Str(<<97>>), Str(<<98>>)>>))>>),
   Obj(<<Field(<<113>>, Str(<<97, 34, 98, 92, 99, 47>>))>>),
   Obj(<<>>),
   Obj(<<Field(<<111>>, Obj(<<Field(<<110>>, Null)>>)),
         Field(<<108>>, Arr(<<Bool(TRUE)>>))>>),
   Obj(<<Field(<<102>>, Bool(FALSE)), Field(<<108>>, Arr(<<>>))>>),
   Obj(<<Field(<<101>>, Str(<<55357, 56832>>))>>)}

\* headers {"alg":"none"} and {"typ":"JWT"}; signatures sig, the empty one
\* and x-_y
Headers ==
  {<<123, 34, 97, 108, 103, 34, 58, 34, 110, 111, 110, 101, 34, 125>>,
   <<123, 34, 116, 121, 112, 34, 58, 34, 74, 87, 84, 34, 125>>}
Signatures == {<<115, 105, 103>>, <<>>, <<120, 45, 95, 121>>}

\* getTokenPayload on the credential built from a claims record
CallRoundTrip(claims, header, sig) ==
  /\ call = NoCall
  /\ \E r \in {getTokenPayloadOutcome(MakeCredential(header, claims, sig))} :
        call' = [op |-> "getTokenPayload:roundTrip", claims |-> claims,
                 payload |-> EncodePayload(claims), sig |-> sig,
                 thrown |-> r.thrown, result |-> r.val]
  /\ lastOp' = "getTokenPayload:roundTrip"
  /\ UNCHANGED <<homeVars, hasWindow, storageFails, store, clockMs, base, error>>
  /\ UNCHANGED guardVars

InitLib ==
  /\ Init
  /\ pathname = "/"
  /\ store = Null

NextLib ==
  \/ \E op \in ApiOps : ApiCall(op)
  \/ \E e \in Exps : \E skew \in Skews : CallIsTokenExpired(e, skew)
  \/ \E e \in Exps : CallIsTokenExpiredDefault(e)
  \/ \E c \in FailClosedInputs : \E skew \in Skews : CallIsTokenExpiredOn(c, skew)
  \/ \E c \in Undecodable : CallGetTokenPayloadOn(c)
  \/ \E claims \in ClaimsRecords : \E header \in Headers : \E sig \in Signatures :
       CallRoundTrip(claims, header, sig)
  \/ Tick

SpecLib == InitLib /\ [][NextLib]_vars

\* ------------------------------------------------------------------------
\* The token store on its own: getToken, setToken and clearToken called in
\* any order, with or without a window, with a storage that works or throws
\* on every access. call.hist keeps the last HistLen calls, each with the
\* slot before and after it.
\* ------------------------------------------------------------------------
HistLen == 3

Remember(entry) ==
  LET h == IF call = NoCall THEN <<>> ELSE call.hist
      all == Append(h, entry)
  IN [op |-> "store",
      hist |-> IF Len(all) > HistLen THEN SubSeq(all, 2, Len(all)) ELSE all]

\* getToken()
StoreGet ==
  LET r == getTokenOutcome
  IN /\ call' = Remember([op |-> "getToken", arg |-> Null,
                          thrown |-> r.thrown, val |-> r.val,
                          before |-> store, after |-> store])
     /\ error' = IF r.thrown THEN "storage" ELSE "none"
     /\ lastOp' = "getToken"
     /\ UNCHANGED <<homeVars, hasWindow, storageFails, store, clockMs, base>>
     /\ UNCHANGED guardVars

\* setToken(x)
StoreSet(x) ==
  LET r == setTokenOutcome(x)
  IN /\ store' = r.val
     /\ call' = Remember([op |-> "setToken", arg |-> x,
                          thrown |-> r.thrown, val |-> Undefined,
                          before |-> store, after |-> r.val])
     /\ error' = IF r.thrown THEN "storage" ELSE "none"
     /\ lastOp' = "setToken"
     /\ UNCHANGED <<homeVars, hasWindow, storageFails, clockMs, base>>
     /\ UNCHANGED guardVars

\* clearToken()
StoreClear ==
  LET r == clearTokenOutcome
  IN /\ store' = r.val
     /\ call' = Remember([op |-> "clearToken", arg |-> Null,
                          thrown |-> r.thrown, val |-> Undefined,
                          before |-> store, after |-> r.val])
     /\ error' = IF r.thrown THEN "storage" ELSE "none"
     /\ lastOp' = "clearToken"
     /\ UNCHANGED <<homeVars, hasWindow, storageFails, clockMs, base>>
     /\ UNCHANGED guardVars

\* no component is mounted; the slot starts empty (never set) or holding a
\* credential of an earlier page load
InitStore ==
  /\ hasWindow \in BOOLEAN
  /\ storageFails \in BOOLEAN
  /\ store \in Tokens \cup {Null}
  /\ clockMs = 0
  /\ base = BaseSet
  /\ mounted = FALSE
  /\ pathname = "/"
  /\ checking = FALSE
  /\ me = Null
  /\ effectPending = FALSE
  /\ req = NoReq
  /\ abortPending = FALSE
  /\ redirect = "none"
  /\ issued = 0
  /\ lastOp = "none"
  /\ error = "none"
  /\ call = NoCall
  /\ HomeIdle

NextStore ==
  \/ StoreGet
  \/ \E x \in Tokens : StoreSet(x)
  \/ StoreClear

SpecStore == InitStore /\ [][NextStore]_vars

\* ------------------------------------------------------------------------
\* HomeClient: the metrics effect and the load effect with their alive
\* flags, the responses of loadDashboardMetrics, loadDevices and
\* loadMaintenanceReport, and the changes of the search parameters
\* ------------------------------------------------------------------------
MaxInflight == 2
pageSize == 10

\* totals a devices or report response may carry
Totals == {0, 25}

\* the queries tried
Queries ==
  {[tab |-> "dispositivos", q |-> "", page |-> 1, reportType |-> "Ambas"],
   [tab |-> "dispositivos", q |-> "pc", page |-> 1, reportType |-> "Ambas"],
   [tab |-> "dispositivos", q |-> "", page |-> 2, reportType |-> "Ambas"],
   [tab |-> "preventiva", q |-> "", page |-> 1, reportType |-> "Ambas"],
   [tab |-> "relatorio", q |-> "", page |-> 1, reportType |-> "Ambas"],
   [tab |-> "relatorio", q |-> "", page |-> 1, reportType |-> "Preventiva"]}

\* what a load answers: a result with its total, or a rejection whose error
\* has a message (HTTP 500) or none
Outcomes ==
  [kind : {"ok"}, total : Totals, message : {Undefined}]
    \cup [kind : {"error"}, total : {0},
          message : {Undefined, Str(<<72, 84, 84, 80, 32, 53, 48, 48>>)}]

\* the dependencies of the load effect as rendered now
CurrentQuery == [tab |-> tab, q |-> q, page |-> page, reportType |-> reportType]

\* e?.message ?? fallback
MessageOr(o, fallback) ==
  IF o.message.t \in {"null", "undefined"} THEN Str(fallback) ELSE o.message

\* the cleanup of the load effect: alive = false in the previous run
KillLoads(rs) ==
  {IF r.kind = "metrics" THEN r ELSE [r EXCEPT !.alive = FALSE] : r \in rs}

\* the body of run() up to its await, for the relatorio tab and for the
\* device tabs
RunReport ==
  /\ devicesData' = Null
  /\ reportLoading' = TRUE
  /\ UNCHANGED <<devicesLoading, report>>

RunDevices ==
  /\ report' = Null
  /\ reportLoading' = FALSE
  /\ devicesLoading' = TRUE
  /\ UNCHANGED devicesData

\* the passive effects run: on the first render the metrics effect starts
\* loadDashboardMetrics(); the load effect runs the cleanup of its previous
\* run and then run()
HomeEffect ==
  /\ homeMounted /\ homeEffectPending
  /\ homeEffectPending' = FALSE
  /\ runQuery' = CurrentQuery
  /\ devicesError' = Null
  /\ reportError' = Null
  /\ IF tab = "relatorio" THEN RunReport ELSE RunDevices
  /\ inflight' =
       KillLoads(inflight)
         \cup {[kind |-> IF tab = "relatorio" THEN "report" ELSE "devices",
                query |-> CurrentQuery, alive |-> TRUE]}
         \cup (IF runQuery = NoQuery
               THEN {[kind |-> "metrics", query |-> NoQuery, alive |-> TRUE]}
               ELSE {})
  /\ lastOp' = "home:effect"
  /\ UNCHANGED <<homeMounted, tab, q, page, reportType, metrics>>
  /\ UNCHANGED <<hasWindow, storageFails, store, clockMs, base, error, call>>
  /\ UNCHANGED guardVars

\* what run() does after its await when the run is alive: try, catch and
\* finally of the report branch and of the devices branch
ReportDone(r, o) ==
  /\ report' = IF o.kind = "ok"
               THEN [items |-> "rows", total |-> o.total, query |-> r.query]
               ELSE Null
  /\ reportError' = IF o.kind = "ok" THEN reportError
                    ELSE MessageOr(o, <<70, 97, 108, 104, 97, 32, 97, 111, 32, 99, 97, 114, 114, 101, 103, 97, 114, 32, 114, 101, 108, 97, 116, 243, 114, 105, 111>>)
  /\ reportLoading' = FALSE
  /\ UNCHANGED <<metrics, devicesLoading, devicesError, devicesData>>

DevicesDone(r, o) ==
  /\ devicesData' =
       IF o.kind = "ok"
       THEN [items |-> "rows", page |-> r.query.page, pageSize |-> pageSize,
             total |-> o.total, query |-> r.query]
       ELSE [items |-> "none", page |-> r.query.page, pageSize |-> pageSize,
             total |-> 0, query |-> r.query]
  /\ devicesError' = IF o.kind = "ok" THEN devicesError
                     ELSE MessageOr(o, <<70, 97, 108, 104, 97, 32, 97, 111, 32, 99, 97, 114, 114, 101, 103, 97, 114, 32, 100, 105, 115, 112, 111, 115, 105, 116, 105, 118, 111, 115>>)
  /\ devicesLoading' = FALSE
  /\ UNCHANGED <<metrics, reportLoading, reportError, report>>

MetricsDone(o) ==
  /\ metrics' = IF o.kind = "ok" THEN [total_computers |-> o.total] ELSE Null
  /\ UNCHANGED <<devicesLoading, devicesError, devicesData, reportLoading,
                 reportError, report>>

\* a load settles: every continuation starts with if (!alive) return
HomeSettle(r, o) ==
  /\ r \in inflight
  /\ inflight' = inflight \ {r}
  /\ IF ~r.alive THEN UNCHANGED homeState
     ELSE IF r.kind = "metrics" THEN MetricsDone(o)
     ELSE IF r.kind = "report" THEN ReportDone(r, o)
     ELSE DevicesDone(r, o)
  /\ lastOp' = IF r.alive THEN "home:settle" ELSE "home:settle:discarded"
  /\ UNCHANGED <<homeMounted, tab, q, page, reportType, homeEffectPending,
                 runQuery>>
  /\ UNCHANGED <<hasWindow, storageFails, store, clockMs, base, error, call>>
  /\ UNCHANGED guardVars

\* the search parameters change and HomeClient re-renders; the load effect
\* is scheduled because its dependencies changed
SearchParamsChange(next) ==
  /\ homeMounted /\ ~homeEffectPending
  /\ next # CurrentQuery
  /\ Cardinality(inflight) < MaxInflight
  /\ tab' = next.tab
  /\ q' = next.q
  /\ page' = next.page
  /\ reportType' = next.reportType
  /\ homeEffectPending' = TRUE
  /\ lastOp' = "home:query"
  /\ UNCHANGED <<homeMounted, runQuery, inflight, homeState>>
  /\ UNCHANGED <<hasWindow, storageFails, store, clockMs, base, error, call>>
  /\ UNCHANGED guardVars

\* HomeClient is torn down: the cleanups of both effects run
HomeUnmount ==
  /\ homeMounted
  /\ homeMounted' = FALSE
  /\ homeEffectPending' = FALSE
  /\ inflight' = {[r EXCEPT !.alive = FALSE] : r \in inflight}
  /\ lastOp' = "home:unmount"
  /\ UNCHANGED <<tab, q, page, reportType, runQuery, homeState>>
  /\ UNCHANGED <<hasWindow, storageFails, store, clockMs, base, error, call>>
  /\ UNCHANGED guardVars

\* a new HomeClient instance is constructed for the query next
HomeMount(next) ==
  /\ ~homeMounted
  /\ Cardinality(inflight) < MaxInflight
  /\ homeMounted' = TRUE
  /\ tab' = next.tab
  /\ q' = next.q
  /\ page' = next.page
  /\ reportType' = next.reportType
  /\ homeEffectPending' = TRUE
  /\ runQuery' = NoQuery
  /\ metrics' = Null
  /\ devicesLoading' = FALSE
  /\ devicesError' = Null
  /\ devicesData' = Null
  /\ reportLoading' = FALSE
  /\ reportError' = Null
  /\ report' = Null
  /\ lastOp' = "home:mount"
  /\ UNCHANGED inflight
  /\ UNCHANGED <<hasWindow, storageFails, store, clockMs, base, error, call>>
  /\ UNCHANGED guardVars

\* HomeClient on its own, under an AppFrame that is not modelled here
InitHome ==
  /\ hasWindow = TRUE
  /\ storageFails = FALSE
  /\ store = Null
  /\ clockMs = 0
  /\ base = BaseSet
  /\ mounted = FALSE
  /\ pathname = "/"
  /\ checking = FALSE
  /\ me = Null
  /\ effectPending = FALSE
  /\ req = NoReq
  /\ abortPending = FALSE
  /\ redirect = "none"
  /\ issued = 0
  /\ lastOp = "home:mount"
  /\ error = "none"
  /\ call = NoCall
  /\ homeMounted = TRUE
  /\ \E first \in Queries :
       /\ tab = first.tab
       /\ q = first.q
       /\ page = first.page
       /\ reportType = first.reportType
  /\ homeEffectPending = TRUE
  /\ runQuery = NoQuery
  /\ inflight = {}
  /\ metrics = Null
  /\ devicesLoading = FALSE
  /\ devicesError = Null
  /\ devicesData = Null
  /\ reportLoading = FALSE
  /\ reportError = Null
  /\ report = Null

NextHome ==
  \/ HomeEffect
  \/ \E r \in inflight : \E o \in Outcomes : HomeSettle(r, o)
  \/ \E next \in Queries : SearchParamsChange(next)
  \/ HomeUnmount
  \/ \E next \in Queries : HomeMount(next)

SpecHome == InitHome /\ [][NextHome]_vars

\* ------------------------------------------------------------------------
\* HomeClient pagination: the page parameter, the range "Mostrando from -
\* to de total", the page count and the Anterior/Proximo links. Numbers
\* that may have a fraction (the page and the link targets) are kept in
\* tenths: 25 is the number 2.5.
\* ------------------------------------------------------------------------
MaxPage == 4
MaxTotal == 25

Min(a, b) == IF a <= b THEN a ELSE b

\* the value of a sequence of decimal digits
RECURSIVE DigitsValue(_)
DigitsValue(ds) ==
  IF ds = <<>> THEN 0
  ELSE DigitsValue(SubSeq(ds, 1, Len(ds) - 1)) * 10 + (ds[Len(ds)] - 48)

AllDigits(ds) == ds # <<>> /\ \A i \in 1..Len(ds) : IsDigit(ds[i])

\* Number(s) for the empty string and for decimal literals with an optional
\* sign and at most one digit after the point; any other text tried here is
\* NaN
Number(s) ==
  LET signed == s # <<>> /\ s[1] \in {43, 45}
      body == IF signed THEN Tail(s) ELSE s
      dot == {i \in 1..Len(body) : body[i] = 46}
      whole == IF dot = {} THEN body
               ELSE SubSeq(body, 1, (CHOOSE i \in dot : TRUE) - 1)
      frac == IF dot = {} THEN <<>>
              ELSE SubSeq(body, (CHOOSE i \in dot : TRUE) + 1, Len(body))
      valid == /\ Cardinality(dot) <= 1
               /\ AllDigits(whole)
               /\ (dot = {} \/ (AllDigits(frac) /\ Len(frac) = 1))
      magnitude == DigitsValue(whole) * 10 + DigitsValue(frac)
  IN IF s = <<>> THEN [nan |-> FALSE, tenths |-> 0]
     ELSE IF ~valid THEN [nan |-> TRUE, tenths |-> 0]
     ELSE [nan |-> FALSE,
           tenths |-> IF signed /\ s[1] = 45 THEN 0 - magnitude ELSE magnitude]

\* page = Math.max(1, Number(searchParams.get("page") ?? "1") || 1), in
\* tenths
NormalizePage(raw) ==
  LET n == Number(IF raw.t \in {"null", "undefined"} THEN <<49>> ELSE raw.s)
  IN Max(10, IF n.nan \/ n.tenths = 0 THEN 10 ELSE n.tenths)

\* from, to, pages and the total shown, computed from devicesData
FromOf(d) ==
  IF d = Null THEN 0
  ELSE IF d.total = 0 THEN 0
  ELSE (d.page - 1) * d.pageSize + 1

ToOf(d) == IF d = Null THEN 0 ELSE Min(d.total, d.page * d.pageSize)

PagesOf(d) ==
  IF d = Null THEN 1
  ELSE Max(1, (d.total + d.pageSize - 1) \div d.pageSize)

TotalOf(d) == IF d = Null THEN 0 ELSE d.total

\* the page of the Anterior link, Math.max(1, page - 1), and of the
\* Proximo link, Math.min(pages, page + 1), in tenths
AnteriorOf(p) == Max(10, p - 10)
ProximoOf(p, pages) == Min(pages * 10, p + 10)

\* page parameters tried: absent, the empty string, abc, 0, -3, 1, 2, 3, 5,
\* 2.5 and +4
PageParams ==
  {Null, Str(<<>>), Str(<<97, 98, 99>>), Str(<<48>>), Str(<<45, 51>>), Str(<<49>>), Str(<<50>>),
   Str(<<51>>), Str(<<53>>), Str(<<50, 46, 53>>), Str(<<43, 52>>)}

\* devicesData tried: not loaded yet, the result of loadDevices for a page
\* with a total, and the substitute of the catch branch
LoadedData ==
  {Null}
    \cup [items : {"rows"}, page : 1..MaxPage, pageSize : {pageSize},
          total : 0..MaxTotal]
    \cup [items : {"none"}, page : 1..MaxPage, pageSize : {pageSize},
          total : {0}]

\* HomeClient renders the pagination row for a page parameter and a
\* devicesData
RenderPagination(raw, d) ==
  /\ call = NoCall
  /\ call' = [op |-> "pagination", raw |-> raw, data |-> d,
              page |-> NormalizePage(raw), from |-> FromOf(d), to |-> ToOf(d),
              total |-> TotalOf(d), pages |-> PagesOf(d),
              anterior |-> AnteriorOf(NormalizePage(raw)),
              proximo |-> ProximoOf(NormalizePage(raw), PagesOf(d))]
  /\ lastOp' = "home:render"
  /\ UNCHANGED <<homeVars, hasWindow, storageFails, store, clockMs, base, error>>
  /\ UNCHANGED guardVars

InitPage ==
  /\ InitHome
  /\ tab = "dispositivos"

NextPage ==
  \E raw \in PageParams : \E d \in LoadedData : RenderPagination(raw, d)

SpecPage == InitPage /\ [][NextPage]_vars

\* ------------------------------------------------------------------------
\* Properties
\* ------------------------------------------------------------------------
\* a step of useEffect, of Mount, and the step that settles the fetch
EffectStep == effectPending /\ ~effectPending' /\ mounted'
MountStep == ~mounted /\ mounted'
SettledStep == req.status = "inflight" /\ req'.res.kind # "none"

FailedResponse(res) ==
  res.kind = "network" \/ res.status < 200 \/ res.status > 299

LogoutOps == {"onLogout", "onLogout:again"}

\* the profile {username: "ana"}
AnaProfile ==
  [t |-> "object",
   fields |-> <<[k |-> <<117, 115, 101, 114, 110, 97, 109, 101>>,
                 val |-> Str(<<97, 110, 97>>)]>>]

\* C1: handling the outcome of a verification request that was aborted by
\* the effect cleanup causes no state transition: the token store, the
\* redirect target, checking and me stay as they were.
C1_AbortCausesNoTransition ==
  [][abortPending => UNCHANGED <<store, redirect, checking, me>>]_vars

\* C2: when the effect runs on a protected page and the store holds no
\* credential or a locally expired one, the store is cleared, the redirect
\* target is /login and that run issues no verification request.
C2_NoCredentialRedirects ==
  [][(EffectStep /\ ~isLogin /\ ~StoredValid)
       => (/\ store' = Null
           /\ redirect' = "/login"
           /\ issued' = 0
           /\ req'.status = "none")]_vars

\* C2 witness: the effect took that branch
C2_Witness ==
  /\ lastOp = "effect:noToken"
  /\ store = Null /\ redirect = "/login" /\ issued = 0

\* C3: when the verification request fails (401, another non-success
\* status, or a transport error that is no cancellation) the store is
\* cleared, the redirect target is /login, and checking and me are left as
\* they were: the instance does not become Authenticated.
C3_FailureEndsSession ==
  [][(SettledStep /\ FailedResponse(req'.res))
       => (/\ store' = Null
           /\ redirect' = "/login"
           /\ checking' = checking
           /\ me' = me)]_vars

\* C3 witness: a 500 answer was handled while the instance was checking
C3_Witness ==
  /\ req.status = "done" /\ req.res.kind = "http" /\ req.res.status = 500
  /\ lastOp = "catch:status"
  /\ store = Null /\ redirect = "/login" /\ checking /\ me = Null

\* C4: when the identity endpoint answers with a success status and a body
\* that parses, checking becomes false and me is the parsed body (for the
\* body {"username":"ana"}, the profile {username: "ana"}); the store and
\* the redirect target are untouched.
C4_SuccessAuthenticates ==
  [][(SettledStep /\ ~FailedResponse(req'.res) /\ JSONparse(req'.res.body).ok)
       => (/\ checking' = FALSE
           /\ me' = JSONparse(req'.res.body).val
           /\ (req'.res.body = BodyAna => me' = AnaProfile)
           /\ store' = store
           /\ redirect' = redirect)]_vars

\* C4 witness: 200 {"username":"ana"} was handled and the protected
\* content is rendered
C4_Witness ==
  /\ lastOp = "then:ok" /\ req.res.status = 200 /\ req.res.body = BodyAna
  /\ me = AnaProfile /\ ~checking /\ View = "protected"

\* C5 (as stated): an effect run on a protected page whose stored
\* credential is present and not locally expired issues exactly one
\* verification request, and no other step issues one.
C5_ExactlyOneRequest ==
  [][/\ (EffectStep /\ ~isLogin /\ StoredValid) => issued' = 1
     /\ (~EffectStep /\ ~MountStep) => issued' = issued]_vars

\* C5 (amended): such a run issues exactly one verification request when
\* the backend base URL is configured and none when it is not; no other
\* step issues a request, so there is never a second one nor a retry after
\* a failed verification.
C5_OneRequestWhenConfigured ==
  [][/\ (EffectStep /\ ~isLogin /\ StoredValid)
          => (/\ issued' = IF Falsy(base) THEN 0 ELSE 1
              /\ (req'.status = "inflight") = ~Falsy(base))
     /\ (~EffectStep /\ ~MountStep)
          => (/\ issued' = issued
              /\ req'.status = "inflight" => req.status = "inflight")
     /\ (SettledStep /\ FailedResponse(req'.res)) => req'.status = "done"]_vars

\* C5 witness: a failed verification was handled and the run still has
\* issued one request, which is finished
C5_Witness ==
  /\ lastOp = "catch:401" /\ issued = 1 /\ req.status = "done"

\* C6: with the backend base URL not configured, an operation that would
\* reach the backend throws a configuration error to its caller and issues
\* no request: the guard's effect on a protected page with a valid
\* credential, and every API wrapper.
C6_ConfigErrorSurfaced ==
  [][/\ (EffectStep /\ ~isLogin /\ StoredValid /\ Falsy(base))
          => (error' = "config" /\ issued' = 0 /\ checking' = checking)
     /\ (call'.op \in ApiOps /\ Falsy(base))
          => (error' = "config" /\ ~call'.requested)]_vars

\* C7: a login-page instance with a stored, not locally expired credential
\* does not render the login form and issues no verification request.
C7_LoginFormNotRendered ==
  (mounted /\ isLogin /\ StoredValid /\ lastOp \in {"mount", "effect:login"})
    => (View # "login" /\ req.status # "inflight")

\* C8: after onLogout, and after onLogout invoked again, the store is
\* empty and the redirect target is /login.
C8_LogoutClearsAndRedirects ==
  lastOp \in LogoutOps => (store = Null /\ redirect = "/login")

\* C8 witness: onLogout was invoked twice in a row on an authenticated
\* instance
C8_Witness ==
  /\ lastOp = "onLogout:again" /\ me # Null
  /\ store = Null /\ redirect = "/login"

\* C9: logout racing a verification: the "Sair" button is never rendered
\* while a verification request is in flight, so a logout is processed only
\* before a request is issued or after its response was handled; once it is
\* processed the store is empty, the target is /login and no response of an
\* earlier request is outstanding that could authenticate the instance again
\* or touch the store.
C9_LogoutLastWriterWins ==
  /\ View = "protected" => (req.status # "inflight" /\ ~abortPending)
  /\ lastOp \in LogoutOps
       => (/\ store = Null /\ redirect = "/login"
           /\ req.status # "inflight" /\ ~abortPending)

\* C9 witness: logout processed after a successful verification response
C9_Witness ==
  /\ lastOp = "onLogout" /\ req.status = "done" /\ req.res.status = 200
  /\ me # Null /\ store = Null /\ redirect = "/login"

\* C10: for a credential whose claims carry the numeric exp e,
\* isTokenExpired(token, skew) is true exactly when the current time in
\* whole seconds is >= e - max(0, skew), the skew being 30 when omitted;
\* exp = now + 100 is not expired and exp = now + 10 is expired at the
\* default skew.
C10_ExpiredIffPastExpMinusSkew ==
  call.op = "isTokenExpired"
    => LET skew == IF call.defaulted THEN 30 ELSE call.skew
           clamped == IF skew < 0 THEN 0 ELSE skew
       IN /\ call.result = (call.now >= call.exp - clamped)
          /\ (call.defaulted /\ call.exp = call.now + 100) => ~call.result
          /\ (call.defaulted /\ call.exp = call.now + 10) => call.result

\* C10 witness: at the default skew, exp = now + 30 is expired (the bound
\* is inclusive)
C10_Witness ==
  /\ call.op = "isTokenExpired" /\ call.defaulted
  /\ call.now > 0 /\ call.exp = call.now + 30 /\ call.result

\* C11: isTokenExpired is fail-closed: for a credential whose claims cannot
\* be decoded, or whose claims carry no exp or a non-numeric exp, it returns
\* true whatever the clock and the skew, and it never raises.
C11_FailClosed ==
  call.op = "isTokenExpired:unusable" => (~call.thrown /\ call.result = TRUE)

\* reached: {"exp":"99"} at time 0 with skew 0, where the number 99 would
\* not be expired, is reported expired
C11_Witness ==
  /\ call.op = "isTokenExpired:unusable"
  /\ call.why = "exp"
  /\ call.token = MakeToken(<<123, 34, 101, 120, 112, 34, 58, 34, 57, 57, 34, 125>>)
  /\ call.now = 0
  /\ call.skew = 0
  /\ call.result = TRUE
  /\ ~isTokenExpired(MakeToken(ExpClaims(99)), 0)

\* C12: getTokenPayload returns null and never throws for a credential with
\* fewer than two dot-separated segments and for one whose second segment
\* fails base64url decoding, UTF-8 decoding or claims parsing.
C12_UndecodableGivesNull ==
  call.op = "getTokenPayload:undecodable" => (~call.thrown /\ call.result = Null)

\* reached: the payload <html> decodes to text that is not a claims record
C12_Witness ==
  /\ call.op = "getTokenPayload:undecodable"
  /\ call.why = "json"
  /\ call.token = MakeToken(BodyHtml)
  /\ base64UrlDecode(SplitDot(call.token.s)[2]) = BodyHtml
  /\ call.result = Null

\* the calls remembered, and what a store that was never set answers
Hist == IF call = NoCall THEN <<>> ELSE call.hist
NeverSet == Null

\* C13: with a working storage the store is a single slot: it holds at most
\* one credential; getToken() right after setToken(x) returns x, whatever was
\* stored before; getToken() after one or several clearToken() returns null;
\* and a cleared slot is the slot of a store that was never set.
C13_StoreAlgebra ==
  (hasWindow /\ ~storageFails) =>
    /\ store \in Tokens \cup {Null}
    /\ \A i \in 2..Len(Hist) :
         /\ (Hist[i].op = "getToken" /\ Hist[i - 1].op = "setToken")
              => Hist[i].val = Hist[i - 1].arg
         /\ (Hist[i].op = "getToken" /\ Hist[i - 1].op = "clearToken")
              => Hist[i].val = NeverSet
    /\ (lastOp = "clearToken" => store = NeverSet)
    /\ (lastOp = "setToken" => store = Hist[Len(Hist)].arg)

\* reached: setToken of one credential, setToken of another, getToken
\* returning the second
C13_Witness ==
  /\ hasWindow /\ ~storageFails
  /\ Len(Hist) = 3
  /\ Hist[1].op = "setToken" /\ Hist[1].arg = TokShort
  /\ Hist[2].op = "setToken" /\ Hist[2].arg = TokLong
  /\ Hist[3].op = "getToken" /\ Hist[3].val = TokLong

\* C14: no store operation lets a storage failure reach its caller: when
\* the storage throws, getToken() returns null and setToken()/clearToken()
\* return normally; without a window getToken() returns null and the other
\* two change nothing.
C14_NoStorageFailurePropagates ==
  /\ \A i \in 1..Len(Hist) :
       /\ ~Hist[i].thrown
       /\ ((~hasWindow \/ storageFails) /\ Hist[i].op = "getToken")
            => Hist[i].val = Null
       /\ (~hasWindow /\ Hist[i].op \in {"setToken", "clearToken"})
            => Hist[i].after = Hist[i].before

\* C15: round trip: a claims record encoded as the URL-safe unpadded base64
\* payload of a three-segment credential is what getTokenPayload returns
\* for it, whatever the header and the signature segments are.
C15_RoundTrip ==
  call.op = "getTokenPayload:roundTrip"
    => (~call.thrown /\ call.result = call.claims)

\* reached: a payload containing _ (from ???), under the signature x-_y,
\* decoded back to its record
C15_Witness ==
  /\ call.op = "getTokenPayload:roundTrip"
  /\ \E i \in 1..Len(call.payload) : call.payload[i] = 95
  /\ call.sig = <<120, 45, 95, 121>>
  /\ call.result = call.claims
  /\ call.result # Null

\* the current instance received a successful identity response since it
\* last entered a protected path: the effect of that entry has run, and the
\* request it issued was answered with a success status
VerifiedSinceEntry ==
  /\ ~effectPending
  /\ req.status = "done"
  /\ req.res.kind = "http"
  /\ ResOk(req.res)

\* C16: gate invariant: protected content is rendered only if the current
\* AppFrame instance received a successful identity response since it last
\* entered a protected path; the first render after leaving /login, a
\* missing configuration, a failure or a cancellation never unblock it.
C16_GateInvariant == (View = "protected") => VerifiedSinceEntry

\* the states of the gate of a protected-page instance
Checking == mounted /\ ~isLogin /\ checking
Authenticated == mounted /\ ~isLogin /\ ~checking
Redirecting == mounted /\ redirect # "none"
TornDown == ~mounted \/ isLogin

\* C17: liveness of the gate: a protected-page instance in Checking
\* eventually is Authenticated or Redirecting, unless it is torn down or
\* leaves the protected paths first, given that scheduled effects run and
\* the endpoint eventually answers or fails.
C17_CheckingEnds == Checking ~> (Authenticated \/ Redirecting \/ TornDown)

\* reached: an instance that was Checking with its request in flight has
\* become Authenticated by the endpoint's answer
C17_Witness ==
  /\ lastOp = "then:ok"
  /\ Authenticated
  /\ req.status = "done"

\* the steps in which the guard may clear the store: the no-credential
\* branch of the effect on a protected page, a failed verification, logout
ClearingOps ==
  {"effect:noToken", "catch:network", "catch:401", "catch:status",
   "catch:json", "onLogout", "onLogout:again"}

\* C18: the guard writes to the token store only by clearing it, and only
\* when the credential is absent or locally expired on a protected page,
\* when the verification failed, or on logout; a successful verification
\* and the checks of the login page leave the store unchanged. (setToken is
\* the login page's step, not the guard's.)
C18_GuardOnlyClears ==
  [][/\ (store' # store /\ lastOp' # "setToken")
          => (store' = Null /\ lastOp' \in ClearingOps)
     /\ (EffectStep /\ isLogin) => store' = store
     /\ (SettledStep /\ lastOp' = "then:ok") => store' = store]_vars

\* a load request started for an earlier query, or by an instance that has
\* been unmounted
Stale(r) == ~homeMounted \/ (r.kind # "metrics" /\ r.query # CurrentQuery)

\* the data shown (the device table or the report rows) comes from the
\* most recently started request
ShownIsLatest ==
  homeMounted =>
    /\ (tab # "relatorio" /\ devicesData # Null) => devicesData.query = runQuery
    /\ (tab = "relatorio" /\ report # Null) => report.query = runQuery

\* C19: stale responses are discarded in HomeClient: once the query has
\* changed or the component is unmounted, the settling of a load request
\* started for an earlier query changes none of devicesData, report, the
\* error fields, the loading flags and metrics; and the data shown always
\* comes from the most recently started request.
C19_StaleDiscarded ==
  [][/\ \A r \in inflight : \A o \in Outcomes :
          (HomeSettle(r, o) /\ Stale(r)) => UNCHANGED homeState
     /\ ShownIsLatest']_vars

\* a request of the current run of the load effect is in flight
Pending(kind) ==
  \E r \in inflight : r.kind = kind /\ r.alive /\ r.query = runQuery

\* C20: loading flags of HomeClient: devicesLoading is true only while a
\* devices request of the current effect run is in flight, reportLoading
\* only while a report request of the current run is in flight; with no
\* request of the current run pending both are false.
C20_LoadingFlags ==
  homeMounted =>
    /\ devicesLoading => Pending("devices")
    /\ reportLoading => Pending("report")

\* C21: pagination bounds in HomeClient: the page parameter is normalised
\* to an integer >= 1, and for every loaded devicesData with total >= 0 and
\* pageSize 10 the range shown satisfies 0 <= from <= to <= total, pages is
\* at least 1, and the Anterior and Proximo links target a page within
\* 1..pages.
C21_PaginationBounds ==
  call.op = "pagination" =>
    /\ call.page >= 10 /\ call.page % 10 = 0
    /\ 0 <= call.from /\ call.from <= call.to /\ call.to <= call.total
    /\ call.pages >= 1
    /\ call.anterior >= 10 /\ call.anterior <= call.pages * 10
    /\ call.proximo >= 10 /\ call.proximo <= call.pages * 10

====
